---------------------------- MODULE Spec2Model ----------------------------
(***************************************************************************)
(* A model of src/src/dmtcp_init.cpp (the supervisor loop: signal          *)
(* configuration, timed signal wait, zombie reaping, exit propagation) and *)
(* of the NamespaceSet / continueAsChild part of src/src/util_init.cpp.    *)
(*                                                                         *)
(* One behaviour runs one driver (the variable scenario):                  *)
(*   "supervisor"  dmtcp_init_main with a tree of children,                *)
(*   "signals"     configure_signals followed by restore_signals,          *)
(*   "namespace"   a caller of the NamespaceSet operations,                *)
(*   "handoff"     Util::continueAsChild with one tracked child.           *)
(* Signals and wait statuses are the integers Linux uses.                  *)
(***************************************************************************)
EXTENDS Integers, Sequences, FiniteSets, TLC

VARIABLES
  scenario,        \* which driver this behaviour runs
  pc,              \* position of the driver
  sigmask,         \* the thread's blocked signal mask (kernel state)
  sigdisp,         \* dispositions of the signals in DispSignals (kernel state)
  orig,            \* the signal state before configure_signals (history)
  parent_sigset,   \* dmtcp_init_main's parent_sigset
  child_sigconf,   \* dmtcp_init_main's child_sigconf, the three pointees
  pending,         \* signals pending for the supervisor
  intr,            \* a signal handler ran while sigtimedwait was blocked
  childSt,         \* supervisor's children: none, running, zombie, reaped
  childStatus,     \* the wait status of each terminated child
  child_exitcode,  \* dmtcp_init_main's child_exitcode
  retval,          \* what dmtcp_init_main returned
  passStart,       \* the children reapable when the current pass began (history)
  lastWait,        \* the result of the last sigtimedwait (history)
  nsp,             \* the NamespaceSet and its process: fields, open fds, joins
  nsEntries,       \* the /proc/<pid>/ns entries that can be opened
  nscall,          \* the NamespaceSet operations called so far (history)
  hchild,          \* the handoff's child: running, stopped, zombie, reaped, none
  hchildStatus,    \* the wait status the child's last state change reports
  stopPending,     \* the child's stop has not been reported by waitpid yet
  status,          \* continueAsChild's local status
  statusInit,      \* status has been written (it is declared uninitialised)
  sent,            \* the signals continueAsChild sent, in order: <<target, signal>>
  observed,        \* the results of continueAsChild's waitpid calls (history)
  stops,           \* how often the child has stopped (history)
  hret,            \* what continueAsChild returned
  parentCatches    \* the signals that do not terminate the handoff's parent

sigvars == <<sigmask, sigdisp, orig, parent_sigset, child_sigconf>>
supvars == <<pending, intr, childSt, childStatus, child_exitcode, retval, passStart,
             lastWait>>
nsvars == <<nsp, nsEntries, nscall>>
hvars == <<hchild, hchildStatus, stopPending, status, statusInit, sent, observed, stops, hret,
           parentCatches>>
vars == <<scenario, pc, sigvars, supvars, nsvars, hvars>>

-----------------------------------------------------------------------------
(* Bounds of the model *)

\* the supervisor's children are the pids 1..MaxChildren
MaxChildren == 2

(* Program constants *)
SIGCHLD == 17
SIGTTIN == 21
SIGTTOU == 22

\* SIGTERM: the signal other than SIGCHLD the environment sends the supervisor
OtherSignals == {15}
Signals == {SIGCHLD, SIGTTIN, SIGTTOU} \cup OtherSignals
DispSignals == {SIGTTIN, SIGTTOU} \cup OtherSignals
Dispositions == {"SIG_DFL", "SIG_IGN", "handler"}

\* exit codes a child exits with, and signals that kill one (SIGKILL)
ExitCodes == {0, 3, 255}
KillSignals == {9}

Pids == 1..MaxChildren
\* the main member of the supervised tree
MainChild == CHOOSE p \in Pids : \A q \in Pids : p <= q

-----------------------------------------------------------------------------
(* <sys/wait.h>: the encoding of a wait status *)

W_EXITCODE(code) == code * 256
W_TERMSIG(sig) == sig
W_STOPCODE(sig) == sig * 256 + 127

WIFEXITED(st) == st % 128 = 0
WEXITSTATUS(st) == (st \div 256) % 256
WIFSIGNALED(st) == (st % 128) # 0 /\ (st % 128) # 127
WTERMSIG(st) == st % 128
WIFSTOPPED(st) == st % 256 = 127

-----------------------------------------------------------------------------
(* dmtcp_init.cpp: signal configuration *)

\* the memset-zeroed struct sigaction: sa_handler = 0 = SIG_DFL
ZeroAction == "SIG_DFL"

\* a variant that blocks and waits for every signal (sigfillset for sigemptyset)
configure_signals_fill(mask, sigconf) ==
  [parent_sigset |-> Signals,
   sigmask       |-> Signals,
   sigconf       |-> [sigconf EXCEPT !.sigmask = mask]]

\* a variant that adds SIGCHLD to the mask in force (SIG_BLOCK for SIG_SETMASK)
configure_signals_block(mask, sigconf) ==
  [parent_sigset |-> {SIGCHLD},
   sigmask       |-> mask \cup {SIGCHLD},
   sigconf       |-> [sigconf EXCEPT !.sigmask = mask]]

\* configure_signals: parent_sigset := {SIGCHLD}; sigprocmask(SIG_SETMASK,
\* parent_sigset, sigconf->sigmask_ptr). The two sigaction pointees are untouched.
configure_signals(mask, sigconf) ==
  [parent_sigset |-> {SIGCHLD},
   sigmask       |-> {SIGCHLD},
   sigconf       |-> [sigconf EXCEPT !.sigmask = mask]]

\* restore_signals: sigprocmask(SIG_SETMASK, saved), sigaction(SIGTTIN, saved),
\* sigaction(SIGTTOU, saved)
restore_signals(disp, sigconf) ==
  [sigmask |-> sigconf.sigmask,
   sigdisp |-> [disp EXCEPT ![SIGTTIN] = sigconf.sigttin_action,
                            ![SIGTTOU] = sigconf.sigttou_action]]

\* dmtcp_init_main, lines 141-154 (also the "signals" driver's first call)
Configure ==
  /\ pc = "start"
  /\ scenario \in {"supervisor", "signals"}
  /\ LET r == configure_signals(sigmask, child_sigconf) IN
       /\ parent_sigset' = r.parent_sigset
       /\ sigmask' = r.sigmask
       /\ child_sigconf' = r.sigconf
  /\ pc' = IF scenario = "supervisor" THEN "wait" ELSE "configured"
  /\ UNCHANGED <<scenario, sigdisp, orig, supvars, nsvars, hvars>>

\* the "signals" driver's second call: restore_signals(&child_sigconf)
Restore ==
  /\ pc = "configured"
  /\ scenario = "signals"
  /\ LET r == restore_signals(sigdisp, child_sigconf) IN
       /\ sigmask' = r.sigmask
       /\ sigdisp' = r.sigdisp
  /\ pc' = "restored"
  /\ UNCHANGED <<scenario, orig, parent_sigset, child_sigconf, supvars, nsvars, hvars>>

-----------------------------------------------------------------------------
(* dmtcp_init.cpp: the supervisor loop *)

\* dmtcp_init_main's child_pid: initialised and never assigned
child_pid == -1

\* a variant without the case for EAGAIN
wait_and_forward_signal_notimeout(r) ==
  IF r.ret = -1
    THEN CASE r.errno = "EINTR"  -> "return 0"
           [] OTHER              -> "fatal"
    ELSE CASE r.signo = SIGCHLD  -> "return 0"
           [] OTHER              -> "fatal"

\* a variant without the case for EINTR
wait_and_forward_signal_nointr(r) ==
  IF r.ret = -1
    THEN CASE r.errno = "EAGAIN" -> "return 0"
           [] OTHER              -> "fatal"
    ELSE CASE r.signo = SIGCHLD  -> "return 0"
           [] OTHER              -> "fatal"

\* wait_and_forward_signal's two switches on the result of sigtimedwait:
\* "return 0" or "fatal" (a failed JASSERT)
wait_and_forward_signal(r) ==
  IF r.ret = -1
    THEN CASE r.errno = "EAGAIN" -> "return 0"
           [] r.errno = "EINTR"  -> "return 0"
           [] OTHER              -> "fatal"
    ELSE CASE r.signo = SIGCHLD  -> "return 0"
           [] OTHER              -> "fatal"

\* what sigtimedwait(parent_sigset, &sig, &ts) can report in the current state:
\* a pending signal of the set, EINTR after a handler ran, else the timeout
SigtimedwaitResults ==
  IF intr
    THEN {[ret |-> -1, errno |-> "EINTR", signo |-> 0]}
    ELSE IF pending \cap parent_sigset # {}
      THEN {[ret |-> s, errno |-> "none", signo |-> s] : s \in pending \cap parent_sigset}
      ELSE {[ret |-> -1, errno |-> "EAGAIN", signo |-> 0]}

Zombies == {p \in Pids : childSt[p] = "zombie"}

\* dmtcp_init_main line 159: one timed wait
\* a variant that goes back to waiting after a wait that timed out
Wait_skip ==
  /\ pc = "wait"
  /\ \E r \in SigtimedwaitResults :
       /\ pending' = IF r.ret = -1 THEN pending ELSE pending \ {r.signo}
       /\ pc' = IF wait_and_forward_signal(r) # "return 0" THEN "fatal"
                ELSE IF r.ret = -1 /\ r.errno = "EAGAIN" THEN "wait" ELSE "reap"
       /\ lastWait' = r
  /\ intr' = FALSE
  /\ passStart' = Zombies
  /\ UNCHANGED <<scenario, sigvars, childSt, childStatus, child_exitcode, retval,
                 nsvars, hvars>>

Wait ==
  /\ pc = "wait"
  /\ \E r \in SigtimedwaitResults :
       /\ pending' = IF r.ret = -1 THEN pending ELSE pending \ {r.signo}
       /\ pc' = IF wait_and_forward_signal(r) = "return 0" THEN "reap" ELSE "fatal"
       /\ lastWait' = r
  /\ intr' = FALSE
  /\ passStart' = Zombies
  /\ UNCHANGED <<scenario, sigvars, childSt, childStatus, child_exitcode, retval,
                 nsvars, hvars>>

\* what waitpid(-1, &current_status, WNOHANG) can report in the current state
WaitpidResults ==
  IF Zombies # {}
    THEN {[pid |-> p, errno |-> "none"] : p \in Zombies}
    ELSE IF \E p \in Pids : childSt[p] = "running"
      THEN {[pid |-> 0, errno |-> "none"]}
      ELSE {[pid |-> -1, errno |-> "ECHILD"]}

\* a variant that takes the status of whichever child it reaped as the exit code
reap_zombies_any(r, pid, exitcode) ==
  CASE r.pid = -1 -> [next |-> IF r.errno = "ECHILD" THEN "break" ELSE "fatal",
                      exitcode |-> exitcode]
    [] r.pid = 0  -> [next |-> "break", exitcode |-> exitcode]
    [] OTHER      -> [next |-> "continue", exitcode |-> WEXITSTATUS(childStatus[r.pid])]

\* a variant without the test for ECHILD
reap_zombies_echild(r, pid, exitcode) ==
  CASE r.pid = -1 -> [next |-> "fatal", exitcode |-> exitcode]
    [] r.pid = 0  -> [next |-> "break", exitcode |-> exitcode]
    [] OTHER      -> [next |-> "continue", exitcode |-> exitcode]

\* a variant that returns after the first child it reaped
reap_zombies_once(r, pid, exitcode) ==
  CASE r.pid = -1 -> [next |-> IF r.errno = "ECHILD" THEN "break" ELSE "fatal",
                      exitcode |-> exitcode]
    [] OTHER      -> [next |-> "break", exitcode |-> exitcode]

\* the switch of reap_zombies on one waitpid result: "continue" (loop again),
\* "break" (return 0) or "fatal"; exitcode is *child_exitcode_ptr afterwards.
\* No case reads pid (the parameter child_pid) or the status the child left.
reap_zombies(r, pid, exitcode) ==
  CASE r.pid = -1 -> [next |-> IF r.errno = "ECHILD" THEN "break" ELSE "fatal",
                      exitcode |-> exitcode]
    [] r.pid = 0  -> [next |-> "break", exitcode |-> exitcode]
    [] OTHER      -> [next |-> "continue", exitcode |-> exitcode]

\* one iteration of the loop of reap_zombies
Reap ==
  /\ pc = "reap"
  /\ \E r \in WaitpidResults :
       LET s == reap_zombies(r, child_pid, child_exitcode) IN
         /\ childSt' = IF r.pid \in Pids THEN [childSt EXCEPT ![r.pid] = "reaped"]
                                          ELSE childSt
         /\ child_exitcode' = s.exitcode
         /\ pc' = CASE s.next = "continue" -> "reap"
                    [] s.next = "break"    -> "check"
                    [] OTHER               -> "fatal"
  /\ UNCHANGED <<scenario, sigvars, pending, intr, childStatus, retval, passStart,
                 lastWait, nsvars, hvars>>

\* dmtcp_init_main lines 168-171: the termination check
Check ==
  /\ pc = "check"
  /\ IF child_exitcode # -1
       THEN pc' = "done" /\ retval' = child_exitcode
       ELSE pc' = "wait" /\ UNCHANGED retval
  /\ UNCHANGED <<scenario, sigvars, pending, intr, childSt, childStatus,
                 child_exitcode, passStart, lastWait, nsvars, hvars>>

InLoop == scenario = "supervisor" /\ pc \in {"wait", "reap", "check"}

\* environment: a child terminates; the kernel raises SIGCHLD on the supervisor,
\* which stays pending if blocked and is discarded (default action) if not
ChildExit(p) ==
  /\ scenario = "supervisor"
  /\ pc \in {"start", "wait", "reap", "check"}
  /\ childSt[p] = "running"
  /\ \E st \in {W_EXITCODE(c) : c \in ExitCodes} \cup {W_TERMSIG(s) : s \in KillSignals} :
       childStatus' = [childStatus EXCEPT ![p] = st]
  /\ childSt' = [childSt EXCEPT ![p] = "zombie"]
  /\ pending' = IF SIGCHLD \in sigmask THEN pending \cup {SIGCHLD} ELSE pending
  /\ UNCHANGED <<scenario, pc, sigvars, intr, child_exitcode, retval, passStart,
                 lastWait, nsvars, hvars>>

\* environment: another signal is sent to the supervisor. Blocked, it stays pending;
\* otherwise its disposition decides: the default action ends the process, a handler
\* interrupts a sigtimedwait in progress, SIG_IGN discards it.
OtherSignal(s) ==
  /\ InLoop
  /\ IF s \in sigmask
       THEN /\ s \notin pending
            /\ pending' = pending \cup {s}
            /\ UNCHANGED <<pc, intr>>
       ELSE CASE sigdisp[s] = "SIG_DFL" -> pc' = "killed" /\ UNCHANGED <<pending, intr>>
              [] sigdisp[s] = "handler" -> /\ pc = "wait" /\ ~intr
                                           /\ intr' = TRUE
                                           /\ UNCHANGED <<pending, pc>>
              [] OTHER                  -> FALSE
  /\ UNCHANGED <<scenario, sigvars, childSt, childStatus, child_exitcode, retval, passStart,
                 lastWait, nsvars, hvars>>

-----------------------------------------------------------------------------
(* util_init.cpp: NamespaceSet *)

\* a caller makes at most MaxCalls NamespaceSet calls after the construction
MaxCalls == 3

NsNames == {"user", "mnt", "pid"}

\* open(2) returns the lowest descriptor that is not open
LowestFree(open) == CHOOSE n \in 0..(Cardinality(open)) :
                      n \notin open /\ \A m \in 0..(n - 1) : m \in open

\* a failed JASSERT ends the process; its descriptors are released with it
JASSERT_fail(P) == [P EXCEPT !.aborted = TRUE, !.open = {}]

\* a variant that does not check the result of open
open_ns_unchecked(P, fd, name, entries) ==
  IF P.aborted THEN P
  ELSE IF name \in entries
    THEN [P EXCEPT ![fd] = LowestFree(P.open), !.open = @ \cup {LowestFree(P.open)}]
    ELSE [P EXCEPT ![fd] = -1]

\* one snprintf + open + JASSERT of the constructor, into field fd
open_ns(P, fd, name, entries) ==
  IF P.aborted THEN P
  ELSE IF name \in entries
    THEN [P EXCEPT ![fd] = LowestFree(P.open), !.open = @ \cup {LowestFree(P.open)}]
    ELSE JASSERT_fail([P EXCEPT ![fd] = -1])

\* Util::NamespaceSet::NamespaceSet(pid)
NamespaceSet(P, entries) ==
  open_ns(open_ns(open_ns(P, "usr_fd", "user", entries),
                  "mnt_fd", "mnt", entries),
          "pid_fd", "pid", entries)

\* setns(fd, nstype) succeeds on an open descriptor when the kernel permits it
\* a variant that does not check the result of setns
setns_unchecked(P, fd, name, permitted) ==
  IF P.aborted THEN P
  ELSE IF fd \in P.open /\ permitted
    THEN [P EXCEPT !.joined = Append(@, name)]
    ELSE P

setns(P, fd, name, permitted) ==
  IF P.aborted THEN P
  ELSE IF fd \in P.open /\ permitted
    THEN [P EXCEPT !.joined = Append(@, name)]
    ELSE JASSERT_fail(P)

connect_usr_ns(P, permitted) == setns(P, P.usr_fd, "user", permitted)
connect_mnt_ns(P, permitted) == setns(P, P.mnt_fd, "mnt", permitted)
connect_pid_ns(P, permitted) == setns(P, P.pid_fd, "pid", permitted)

\* a variant that joins the mount namespace first
connectns_mnt_first(P, permitted) ==
  connect_pid_ns(connect_usr_ns(connect_mnt_ns(P, permitted[1]), permitted[2]),
                 permitted[3])

\* Util::NamespaceSet::connectns; permitted[i] is the kernel's answer to the i-th setns
connectns(P, permitted) ==
  connect_pid_ns(connect_mnt_ns(connect_usr_ns(P, permitted[1]), permitted[2]),
                 permitted[3])

\* JASSERT(close(fd) == 0): close fails with EBADF on a descriptor that is not open
close_fd(P, fd) ==
  IF P.aborted THEN P
  ELSE IF fd \in P.open
    THEN [P EXCEPT !.open = @ \ {fd}]
    ELSE JASSERT_fail(P)

\* Util::NamespaceSet::closens
closens(P) == close_fd(close_fd(close_fd(P, P.usr_fd), P.mnt_fd), P.pid_fd)

NsFds(P) == {P.usr_fd, P.mnt_fd, P.pid_fd}

\* the caller constructs the set
NsConstruct ==
  /\ scenario = "namespace"
  /\ pc = "start"
  /\ nsp' = NamespaceSet(nsp, nsEntries)
  /\ nscall' = Append(nscall, "NamespaceSet")
  /\ pc' = IF nsp'.aborted THEN "aborted" ELSE "ready"
  /\ UNCHANGED <<scenario, sigvars, supvars, nsEntries, hvars>>

NsCall(name, P) ==
  /\ scenario = "namespace"
  /\ pc = "ready"
  /\ Len(nscall) <= MaxCalls
  /\ nsp' = P
  /\ nscall' = Append(nscall, name)
  /\ pc' = IF P.aborted THEN "aborted" ELSE "ready"
  /\ UNCHANGED <<scenario, sigvars, supvars, nsEntries, hvars>>

NsConnectAll == \E permitted \in [1..3 -> BOOLEAN] :
                  NsCall("connectns", connectns(nsp, permitted))
NsConnectUsr == \E permitted \in BOOLEAN :
                  NsCall("connect_usr_ns", connect_usr_ns(nsp, permitted))
NsConnectMnt == \E permitted \in BOOLEAN :
                  NsCall("connect_mnt_ns", connect_mnt_ns(nsp, permitted))
NsConnectPid == \E permitted \in BOOLEAN :
                  NsCall("connect_pid_ns", connect_pid_ns(nsp, permitted))
NsClose == NsCall("closens", closens(nsp))

-----------------------------------------------------------------------------
(* util_init.cpp: Util::continueAsChild *)

SIGSTOP == 19
SIGCONT == 18
EXIT_FAILURE == 1

\* the child stops at most MaxStops times
MaxStops == 2

\* signals that stop the child (SIGSTOP, SIGTSTP), signals that kill it
\* (SIGKILL, SIGTERM), and the one of them the parent may have a handler for
HStopSignals == {SIGSTOP, 20}
HKillSignals == {9, 15}
Catchable == {15}

\* values the uninitialised local status may hold
GarbageStatuses ==
  {W_EXITCODE(c) : c \in ExitCodes} \cup {W_TERMSIG(s) : s \in HKillSignals}
    \cup {W_STOPCODE(s) : s \in HStopSignals}

\* what waitpid(child_pid, &status, WUNTRACED) can report in the current state:
\* the child's termination, its unreported stop, ECHILD when there is no such
\* child, and otherwise (the call blocks) EINTR once a handler of the parent ran
HWaitpidResults ==
  CASE hchild = "zombie" -> {[is_child |-> TRUE, status |-> hchildStatus, errno |-> "none"]}
    [] hchild = "stopped" /\ stopPending ->
         {[is_child |-> TRUE, status |-> hchildStatus, errno |-> "none"]}
    [] hchild \in {"none", "reaped"} ->
         {[is_child |-> FALSE, status |-> 0, errno |-> "ECHILD"]}
    [] OTHER -> IF parentCatches # {}
                  THEN {[is_child |-> FALSE, status |-> 0, errno |-> "EINTR"]}
                  ELSE {}

\* a variant of the test without WIFSTOPPED
continueAsChild_stopped_any(r) == r.is_child

\* a variant of the test that takes every status but an exit for a stop
continueAsChild_stopped_notexited(r) == r.is_child /\ ~WIFEXITED(r.status)

\* the test of the loop, line 99: TRUE for the stop/continue branch, FALSE for break
continueAsChild_stopped(r) == r.is_child /\ WIFSTOPPED(r.status)

\* lines 98-99 and 105-107: one waitpid and the branch on its result
HWaitpid ==
  /\ scenario = "handoff"
  /\ pc = "waitpid"
  /\ \E r \in HWaitpidResults :
       /\ status' = IF r.is_child THEN r.status ELSE status
       /\ statusInit' = (statusInit \/ r.is_child)
       /\ observed' = Append(observed, IF r.is_child THEN r.status ELSE -1)
       /\ hchild' = IF r.is_child /\ hchild = "zombie" THEN "reaped" ELSE hchild
       /\ stopPending' = FALSE
       /\ pc' = IF continueAsChild_stopped(r) THEN "stopself" ELSE "tail"
  /\ UNCHANGED <<scenario, sigvars, supvars, nsvars, hchildStatus, sent, stops, hret,
                 parentCatches>>

\* line 103: kill(parent_pid, SIGSTOP); the parent is stopped until it is continued
HStopSelf ==
  /\ scenario = "handoff"
  /\ pc = "stopself"
  /\ sent' = Append(sent, <<"parent", SIGSTOP>>)
  /\ pc' = "stopped"
  /\ UNCHANGED <<scenario, sigvars, supvars, nsvars, hchild, hchildStatus, stopPending,
                 status, statusInit, observed, stops, hret, parentCatches>>

\* environment: the controller continues the stopped parent
HResumed ==
  /\ scenario = "handoff"
  /\ pc = "stopped"
  /\ pc' = "contchild"
  /\ UNCHANGED <<scenario, sigvars, supvars, nsvars, hvars>>

\* line 104: kill(child_pid, SIGCONT)
HContChild ==
  /\ scenario = "handoff"
  /\ pc = "contchild"
  /\ sent' = Append(sent, <<"child", SIGCONT>>)
  /\ hchild' = IF hchild = "stopped" THEN "running" ELSE hchild
  /\ stopPending' = FALSE
  /\ pc' = "waitpid"
  /\ UNCHANGED <<scenario, sigvars, supvars, nsvars, hchildStatus, status, statusInit,
                 observed, stops, hret, parentCatches>>

\* a variant without the WIFSIGNALED branch
continueAsChild_result_nokill(st) ==
  IF WIFEXITED(st) THEN [kill |-> 0, ret |-> WEXITSTATUS(st)]
  ELSE [kill |-> 0, ret |-> EXIT_FAILURE]

\* a variant that returns the wait status itself
continueAsChild_result_raw(st) ==
  IF WIFEXITED(st) THEN [kill |-> 0, ret |-> st]
  ELSE IF WIFSIGNALED(st) THEN [kill |-> WTERMSIG(st), ret |-> EXIT_FAILURE]
  ELSE [kill |-> 0, ret |-> EXIT_FAILURE]

\* lines 109-114 on the value of status: the signal sent to the parent (0: none)
\* and the value returned if the function returns
continueAsChild_result(st) ==
  IF WIFEXITED(st) THEN [kill |-> 0, ret |-> WEXITSTATUS(st)]
  ELSE IF WIFSIGNALED(st) THEN [kill |-> WTERMSIG(st), ret |-> EXIT_FAILURE]
  ELSE [kill |-> 0, ret |-> EXIT_FAILURE]

\* lines 109-114; a signal the parent has no handler for terminates it inside kill
HTail ==
  /\ scenario = "handoff"
  /\ pc = "tail"
  /\ \E st \in (IF ~statusInit THEN GarbageStatuses ELSE {status}) :
       LET t == continueAsChild_result(st) IN
         /\ sent' = IF t.kill # 0 THEN Append(sent, <<"parent", t.kill>>) ELSE sent
         /\ IF t.kill # 0 /\ t.kill \notin parentCatches
              THEN pc' = "killed" /\ UNCHANGED hret
              ELSE pc' = "returned" /\ hret' = t.ret
  /\ UNCHANGED <<scenario, sigvars, supvars, nsvars, hchild, hchildStatus, stopPending,
                 status, statusInit, observed, stops, parentCatches>>

\* environment: the child stops
HChildStop(sig) ==
  /\ scenario = "handoff"
  /\ hchild = "running"
  /\ stops < MaxStops
  /\ hchild' = "stopped"
  /\ hchildStatus' = W_STOPCODE(sig)
  /\ stopPending' = TRUE
  /\ stops' = stops + 1
  /\ UNCHANGED <<scenario, pc, sigvars, supvars, nsvars, status, statusInit, sent, observed,
                 hret, parentCatches>>

\* environment: somebody else continues the stopped child
HChildContinued ==
  /\ scenario = "handoff"
  /\ hchild = "stopped"
  /\ hchild' = "running"
  /\ stopPending' = FALSE
  /\ UNCHANGED <<scenario, pc, sigvars, supvars, nsvars, hchildStatus, status, statusInit,
                 sent, observed, stops, hret, parentCatches>>

\* environment: the running child exits or is killed; SIGKILL also ends a stopped one
HChildExit(st) ==
  /\ scenario = "handoff"
  /\ \/ hchild = "running"
     \/ hchild = "stopped" /\ st = W_TERMSIG(9)
  /\ hchild' = "zombie"
  /\ hchildStatus' = st
  /\ UNCHANGED <<scenario, pc, sigvars, supvars, nsvars, stopPending, status, statusInit,
                 sent, observed, stops, hret, parentCatches>>

-----------------------------------------------------------------------------

Scenarios == {"supervisor", "signals", "namespace", "handoff"}

Init ==
  /\ scenario \in Scenarios
  /\ pc = IF scenario = "handoff" THEN "waitpid" ELSE "start"
  /\ sigmask \in CASE scenario = "signals"    -> SUBSET Signals
                   [] scenario = "supervisor" -> SUBSET ({SIGCHLD} \cup OtherSignals)
                   [] OTHER                   -> {{}}
  /\ sigdisp \in CASE scenario = "signals"    -> [DispSignals -> Dispositions]
                   [] scenario = "supervisor" ->
                        {d \in [DispSignals -> Dispositions] :
                           d[SIGTTIN] = "SIG_DFL" /\ d[SIGTTOU] = "SIG_DFL"}
                   [] OTHER                   -> {[s \in DispSignals |-> "SIG_DFL"]}
  /\ orig = [sigmask |-> sigmask, sigdisp |-> sigdisp]
  /\ parent_sigset = {}
  /\ child_sigconf = [sigmask |-> {}, sigttin_action |-> ZeroAction,
                      sigttou_action |-> ZeroAction]
  /\ pending = {}
  /\ intr = FALSE
  /\ childSt \in IF scenario = "supervisor" THEN [Pids -> {"none", "running"}]
                                             ELSE {[p \in Pids |-> "none"]}
  /\ childStatus = [p \in Pids |-> 0]
  /\ child_exitcode = -1
  /\ retval = -1
  /\ passStart = {}
  /\ lastWait = [ret |-> 0, errno |-> "none", signo |-> 0]
  /\ nsp = [usr_fd |-> -1, mnt_fd |-> -1, pid_fd |-> -1, open |-> {0, 1, 2},
            joined |-> <<>>, aborted |-> FALSE]
  /\ nsEntries \in IF scenario = "namespace" THEN SUBSET NsNames ELSE {NsNames}
  /\ nscall = <<>>
  /\ hchild \in IF scenario = "handoff" THEN {"running", "none"} ELSE {"none"}
  /\ hchildStatus = 0
  /\ stopPending = FALSE
  /\ status = 0
  /\ statusInit = FALSE
  /\ sent = <<>>
  /\ observed = <<>>
  /\ stops = 0
  /\ hret = -1
  /\ parentCatches \in IF scenario = "handoff" THEN SUBSET Catchable ELSE {{}}

Next ==
  \/ Configure
  \/ Restore
  \/ Wait
  \/ Reap
  \/ Check
  \/ \E p \in Pids : ChildExit(p)
  \/ \E s \in OtherSignals : OtherSignal(s)
  \/ NsConstruct
  \/ NsConnectAll
  \/ NsConnectUsr
  \/ NsConnectMnt
  \/ NsConnectPid
  \/ NsClose
  \/ HWaitpid
  \/ HStopSelf
  \/ HResumed
  \/ HContChild
  \/ HTail
  \/ \E sig \in HStopSignals : HChildStop(sig)
  \/ HChildContinued
  \/ \E c \in ExitCodes : HChildExit(W_EXITCODE(c))
  \/ \E sig \in HKillSignals : HChildExit(W_TERMSIG(sig))

Spec == Init /\ [][Next]_vars

\* The supervisor is sequential code that keeps running: sigtimedwait returns after
\* at most ts (one second) and waitpid is called with WNOHANG.
FairSpec == Spec /\ WF_vars(Wait) /\ WF_vars(Reap) /\ WF_vars(Check)

-----------------------------------------------------------------------------
(* Properties *)

Last(seq) == seq[Len(seq)]
IsPrefix(a, b) == Len(a) <= Len(b) /\ SubSeq(b, 1, Len(a)) = a

MainExited == /\ scenario = "supervisor"
              /\ childSt[MainChild] = "reaped"
              /\ WIFEXITED(childStatus[MainChild])

\* C1: once the main child, which exited normally with status S, has been reaped,
\* the supervisor finishes that reaping pass and returns S; it never goes back to
\* waiting (a signal that ends the supervisor first aside).
C1_ExitCodePropagated ==
  MainExited =>
    \/ pc \in {"reap", "check", "killed"}
    \/ pc = "done" /\ retval = WEXITSTATUS(childStatus[MainChild])

\* the handoff is over: continueAsChild returned or its process was killed
HFinished == scenario = "handoff" /\ pc \in {"returned", "killed"}
\* the loop of continueAsChild ended on a wait that reported the child's end
HEndedSignaled == observed # <<>> /\ Last(observed) # -1 /\ WIFSIGNALED(Last(observed))
HEndedExited == observed # <<>> /\ Last(observed) # -1 /\ WIFEXITED(Last(observed))
HNoWaitFailed == \A i \in DOMAIN observed : observed[i] # -1
\* the signals the parent sent itself, in order
ToParent == SelectSeq(sent, LAMBDA e : e[1] = "parent")
\* n stop/continue cycles
Cycles(n) == [i \in 1..(2 * n) |-> IF i % 2 = 1 THEN <<"parent", SIGSTOP>>
                                                ELSE <<"child", SIGCONT>>]
HObservedStops == Cardinality({i \in DOMAIN observed :
                                 observed[i] # -1 /\ WIFSTOPPED(observed[i])})

\* C2 as stated: when the child was terminated by signal N, the parent sends itself
\* N exactly once and no other signal, and continueAsChild does not return.
C2_Original ==
  (HFinished /\ HEndedSignaled) =>
    /\ ToParent = <<<<"parent", WTERMSIG(Last(observed))>>>>
    /\ pc = "killed"

\* C2 as amended: when the child was terminated by signal N, the last signal the
\* parent sends is N to itself, sent exactly once after the loop; every earlier signal
\* to itself is the SIGSTOP of a stop/continue cycle; continueAsChild does not return
\* if N terminates the parent and returns EXIT_FAILURE if the parent survives N.
C2_SignalReraised ==
  (HFinished /\ HEndedSignaled) =>
    LET N == WTERMSIG(Last(observed)) IN
      /\ sent = Append(Cycles(HObservedStops), <<"parent", N>>)
      /\ N \notin parentCatches => pc = "killed" /\ hret = -1
      /\ N \in parentCatches => pc = "returned" /\ hret = EXIT_FAILURE

C2_Witness ==
  /\ HFinished /\ HEndedSignaled
  /\ pc = "returned"
  /\ Len(sent) = 3

\* C3 as stated: for a child that stopped N times and then exited with status S
\* (no wait of the parent failing), continueAsChild made exactly N stop/continue
\* cycles and returned S.
C3_Original ==
  (HFinished /\ HNoWaitFailed /\ hchild \in {"zombie", "reaped"}
     /\ WIFEXITED(hchildStatus)) =>
    /\ pc = "returned"
    /\ hret = WEXITSTATUS(hchildStatus)
    /\ sent = Cycles(stops)

\* C3 as amended: when the waits of continueAsChild reported N stops of the child
\* and then its normal exit with status S, continueAsChild made exactly N
\* stop/continue cycles (SIGSTOP to itself, then SIGCONT to the child) and returned
\* S; a stop of the child that no wait reported makes no cycle.
C3_CyclesThenStatus ==
  (HFinished /\ HEndedExited) =>
    /\ pc = "returned"
    /\ hret = WEXITSTATUS(Last(observed))
    /\ sent = Cycles(HObservedStops)
    /\ HObservedStops = Len(observed) - 1
    /\ HObservedStops <= stops

C3_Witness ==
  /\ HFinished /\ HNoWaitFailed /\ HEndedExited
  /\ HObservedStops = 2
  /\ hret = 3

\* C4: every child that was reapable when the wait woke up has been reaped when the
\* reaping pass is over; the pass ends only on a waitpid that found no child reapable;
\* and the pass ends (unless a signal ends the supervisor first).
C4_DrainAll ==
  /\ [](scenario = "supervisor" /\ pc \in {"check", "wait"}
          => \A p \in passStart : childSt[p] = "reaped")
  /\ [][pc = "reap" /\ pc' = "check" => Zombies = {}]_vars
  /\ (pc = "reap" ~> pc \in {"check", "killed"})

C4_Witness ==
  /\ scenario = "supervisor" /\ pc = "check"
  /\ Cardinality(passStart) >= 2
  /\ lastWait.signo = SIGCHLD

\* C5: a timed wait that ends by timeout (EAGAIN) or interruption (EINTR) returns 0:
\* the loop goes on to the reaping pass, nothing is fatal, nothing is returned.
C5_TimeoutNotFatal ==
  [][(pc = "wait" /\ pc' \in {"reap", "fatal"} /\ lastWait'.errno \in {"EAGAIN", "EINTR"})
       => (pc' = "reap" /\ retval' = retval /\ child_exitcode' = child_exitcode)]_vars

C5_Witness ==
  /\ scenario = "supervisor" /\ pc = "reap"
  /\ lastWait.errno = "EINTR"

\* only the constructor has run
NsConstructed == scenario = "namespace" /\ nscall = <<"NamespaceSet">>

\* C6: when one of the three opens fails the construction is fatal and no descriptor
\* it opened is open afterwards; a constructed set has three distinct open descriptors
\* until closens is called.
C6_AllOrNothing ==
  /\ (NsConstructed /\ nsEntries # NsNames)
       => (pc = "aborted" /\ nsp.aborted /\ NsFds(nsp) \cap nsp.open = {})
  /\ (scenario = "namespace" /\ pc = "ready"
        /\ \A i \in DOMAIN nscall : nscall[i] # "closens")
       => (NsFds(nsp) \subseteq nsp.open /\ Cardinality(NsFds(nsp)) = 3)

C6_Witness ==
  /\ NsConstructed /\ nsEntries = {"user", "mnt"}
  /\ nsp.aborted /\ nsp.usr_fd = 3 /\ nsp.mnt_fd = 4 /\ nsp.pid_fd = -1

\* C7 as stated: in the order of the joins made, a mount join never precedes the
\* user join and a PID join never precedes the mount join.
C7_Original ==
  \A i \in DOMAIN nsp.joined :
    /\ nsp.joined[i] = "mnt" => \E j \in 1..(i - 1) : nsp.joined[j] = "user"
    /\ nsp.joined[i] = "pid" => \E j \in 1..(i - 1) : nsp.joined[j] = "mnt"

\* the joins the step made
JoinsAdded == SubSeq(nsp'.joined, Len(nsp.joined) + 1, Len(nsp'.joined))

\* C7 as amended: one call of connectns joins user, then mount, then PID, stopping
\* at the first join that fails; connect_usr_ns, connect_mnt_ns and connect_pid_ns
\* each join their own namespace only, whatever was joined before.
C7_ConnectnsOrder ==
  [][(scenario = "namespace" /\ nscall' # nscall /\ Len(nscall) >= 1) =>
       CASE Last(nscall') = "connectns" ->
              /\ IsPrefix(JoinsAdded, <<"user", "mnt", "pid">>)
              /\ ~nsp'.aborted => JoinsAdded = <<"user", "mnt", "pid">>
         [] Last(nscall') = "connect_usr_ns" ->
              JoinsAdded = IF nsp'.aborted THEN <<>> ELSE <<"user">>
         [] Last(nscall') = "connect_mnt_ns" ->
              JoinsAdded = IF nsp'.aborted THEN <<>> ELSE <<"mnt">>
         [] Last(nscall') = "connect_pid_ns" ->
              JoinsAdded = IF nsp'.aborted THEN <<>> ELSE <<"pid">>
         [] OTHER -> JoinsAdded = <<>>]_vars

C7_Witness ==
  /\ scenario = "namespace" /\ pc = "ready"
  /\ nscall = <<"NamespaceSet", "connect_mnt_ns", "connectns">>
  /\ nsp.joined = <<"mnt", "user", "mnt", "pid">>

\* C8: restore_signals after configure_signals reinstates the signal mask and the
\* dispositions of SIGTTIN and SIGTTOU that were in force before configure_signals.
C8_RoundTrip ==
  (scenario = "signals" /\ pc = "restored") =>
    /\ sigmask = orig.sigmask
    /\ sigdisp = orig.sigdisp

\* C9 as stated: in every state of the supervisor loop every signal is blocked.
C9_Original == InLoop => Signals \subseteq sigmask

\* C9 as amended: in every state of the supervisor loop exactly SIGCHLD is blocked
\* (the mask in force before is saved), a SIGCHLD raised is held pending, and the
\* timed wait hands over no signal but SIGCHLD.
C9_OnlySigchldBlocked ==
  InLoop =>
    /\ sigmask = {SIGCHLD}
    /\ parent_sigset = {SIGCHLD}
    /\ child_sigconf.sigmask = orig.sigmask
    /\ pending \subseteq {SIGCHLD}
    /\ lastWait.signo \in {0, SIGCHLD}

C9_Witness ==
  /\ InLoop /\ pc = "reap"
  /\ lastWait.signo = SIGCHLD
  /\ orig.sigmask = OtherSignals

\* C10: a second closens right after a closens does not end the process and leaves
\* all three descriptors closed.
C10_CloseIdempotent ==
  (scenario = "namespace" /\ Len(nscall) >= 3
     /\ nscall[Len(nscall)] = "closens" /\ nscall[Len(nscall) - 1] = "closens") =>
    /\ ~nsp.aborted
    /\ NsFds(nsp) \cap nsp.open = {}

\* the step reaped child p
Reaped(p) == childSt[p] = "zombie" /\ childSt'[p] = "reaped"

\* C11: the step that reaps a child other than the main child leaves the child exit
\* state as it is and stays in the reaping pass; and whenever the supervisor has
\* returned, the exit state was known and is the value returned.
C11_SideChildIgnored ==
  /\ [][\A p \in Pids \ {MainChild} :
          Reaped(p) => /\ child_exitcode' = child_exitcode
                       /\ retval' = retval
                       /\ pc' = "reap"]_vars
  /\ [](scenario = "supervisor" /\ pc = "done"
          => child_exitcode # -1 /\ retval = child_exitcode)

C11_Witness ==
  /\ scenario = "supervisor" /\ pc = "wait"
  /\ childSt[MainChild] = "running"
  /\ \E p \in Pids \ {MainChild} : childSt[p] = "reaped"
  /\ child_exitcode = -1

\* C12: the child exit state is -1 as long as the main child has not been reaped,
\* and once the main child, which exited with status S, has been reaped it is S
\* (0 included).
C12_ExitStateCaptured ==
  scenario = "supervisor" =>
    /\ childSt[MainChild] # "reaped" => child_exitcode = -1
    /\ (childSt[MainChild] = "reaped" /\ WIFEXITED(childStatus[MainChild]))
         => child_exitcode = WEXITSTATUS(childStatus[MainChild])

\* C13: while the supervisor loop runs, every child that has exited is collected
\* in the end (unless a signal ends the supervisor first).
C13_NoPermanentZombie ==
  \A p \in Pids :
    (InLoop /\ childSt[p] = "zombie") ~> (childSt[p] = "reaped" \/ pc = "killed")

\* a child that exited in the middle of a reaping pass, after the wake-up, and was
\* collected
C13_Witness ==
  /\ scenario = "supervisor" /\ pc = "check"
  /\ \E p \in Pids : childSt[p] = "reaped" /\ p \notin passStart
  /\ lastWait.errno = "EAGAIN"

\* C14 as stated: once a signal other than SIGCHLD has arrived (its handler ran, or
\* it ended the process) the supervisor is in its fatal-error path.
C14_Original ==
  (scenario = "supervisor" /\ (intr \/ pc = "killed")) => pc = "fatal"

\* C14 as amended: wait_and_forward_signal is fatal for every signal other than
\* SIGCHLD the timed wait hands over, but the wait hands over none and the
\* fatal-error path is never taken: such a signal is not blocked, it ends the
\* supervisor only by its default action, and after its handler the loop goes on.
C14_OtherSignalByDisposition ==
  /\ \A s \in Signals \ {SIGCHLD} :
       wait_and_forward_signal([ret |-> s, errno |-> "none", signo |-> s]) = "fatal"
  /\ scenario = "supervisor" =>
       /\ pc # "fatal"
       /\ lastWait.signo \notin OtherSignals
       /\ pending \cap OtherSignals = {}
       /\ pc = "killed" => \E s \in OtherSignals : sigdisp[s] = "SIG_DFL"
       /\ intr => pc = "wait" /\ \E s \in OtherSignals : sigdisp[s] = "handler"

C14_Witness ==
  /\ scenario = "supervisor" /\ pc = "killed"
  /\ \E p \in Pids : childSt[p] = "running"

NoChildren == \A p \in Pids : childSt[p] \in {"none", "reaped"}

\* C15: a waitpid that fails with ECHILD ends the reaping pass like one that finds
\* no child reapable, with the exit state unchanged, and any other failure is fatal;
\* a supervisor that has no children neither fails nor returns.
C15_EchildNotFatal ==
  /\ \A e \in {"EINTR", "EINVAL"} :
       reap_zombies([pid |-> -1, errno |-> e], child_pid, -1).next = "fatal"
  /\ [][(scenario = "supervisor" /\ pc = "reap" /\ pc' # "killed" /\ NoChildren)
          => (pc' = "check" /\ child_exitcode' = child_exitcode)]_vars
  /\ [](scenario = "supervisor" /\ (\A p \in Pids : childSt[p] = "none")
          => pc \notin {"fatal", "done"})

C15_Witness ==
  /\ scenario = "supervisor" /\ pc = "wait"
  /\ \A p \in Pids : childSt[p] = "none"
  /\ lastWait.errno = "EAGAIN"

HLeftLoop == scenario = "handoff" /\ pc \in {"tail", "returned", "killed"}
HTerminal(st) == st # -1 /\ (WIFEXITED(st) \/ WIFSIGNALED(st))
HContsSent == Cardinality({i \in DOMAIN sent : sent[i] = <<"child", SIGCONT>>})
HStopsSent == Cardinality({i \in DOMAIN sent : sent[i] = <<"parent", SIGSTOP>>})

\* C16: when the loop of continueAsChild ended on a waitpid that failed (on the
\* first iteration or after observed stops), continueAsChild returns EXIT_FAILURE
\* and has sent the parent nothing but the SIGSTOPs of the completed cycles.
C16_FailureOnOtherEvent ==
  (HFinished /\ observed # <<>> /\ Last(observed) = -1) =>
    /\ pc = "returned"
    /\ hret = EXIT_FAILURE
    /\ sent = Cycles(HObservedStops)

C18_StopBeforeCont ==
  /\ [](scenario = "handoff" =>
          /\ \A i \in DOMAIN sent :
               sent[i] = <<"child", SIGCONT>>
                 => i > 1 /\ sent[i - 1] = <<"parent", SIGSTOP>>
          /\ HContsSent <= HObservedStops
          /\ pc \in {"stopped", "contchild"}
               => /\ Last(sent) = <<"parent", SIGSTOP>>
                  /\ HContsSent = HObservedStops - 1
                  /\ HStopsSent >= HObservedStops
          /\ pc = "stopself" => HContsSent = HObservedStops - 1)
  /\ [][(scenario = "handoff" /\ HContsSent' > HContsSent)
          => (pc = "contchild" /\ sent' = Append(sent, <<"child", SIGCONT>>))]_vars

C18_Witness ==
  /\ scenario = "handoff" /\ pc = "contchild"
  /\ Len(sent) = 3
  /\ HObservedStops = 2

\* C19: a call of connectns either joins the user, mount and PID namespaces, all
\* three, and returns, or aborts at the first join that fails, with no later join
\* attempted.
C19_AllOrAbort ==
  [][(scenario = "namespace" /\ nscall' # nscall /\ Len(nscall) >= 1
        /\ Last(nscall') = "connectns") =>
       /\ nsp'.aborted <=> JoinsAdded # <<"user", "mnt", "pid">>
       /\ nsp'.aborted <=> pc' = "aborted"
       /\ nsp'.aborted => JoinsAdded \in {<<>>, <<"user">>, <<"user", "mnt">>}]_vars

C19_Witness ==
  /\ scenario = "namespace" /\ pc = "aborted"
  /\ Last(nscall) = "connectns"
  /\ nsp.joined = <<"user">>

\* C20: in the supervisor loop a wait, whatever its outcome, is followed by a
\* reaping pass, the pass by the termination check, and the check by the next wait
\* or the return; so at the check after a wait that timed out every child that had
\* exited before the wake-up has been collected.
C20_WaitReapCheck ==
  /\ [][(scenario = "supervisor" /\ pc' # pc /\ pc' # "killed") =>
          /\ pc = "wait"  => pc' = "reap"
          /\ pc = "reap"  => pc' = "check"
          /\ pc = "check" => pc' \in {"wait", "done"}]_vars
  /\ [](scenario = "supervisor" /\ pc = "check"
          => \A p \in passStart : childSt[p] = "reaped")
  /\ [](scenario = "supervisor" /\ pc = "wait" /\ lastWait.errno = "EAGAIN"
          => \A p \in passStart : childSt[p] = "reaped")

C20_Witness ==
  /\ scenario = "supervisor" /\ pc = "check"
  /\ lastWait.errno = "EAGAIN"
  /\ passStart # {}
  /\ SIGCHLD \notin pending

=============================================================================
